---- MODULE Spec2Model ----
(***************************************************************************)
(* Badminton court availability report (xindalok/scrapper).                *)
(*                                                                         *)
(* Two variants of one pipeline are modelled:                              *)
(*   variant = "app"   src/app.py   sequential fetches                     *)
(*   variant = "main"  src/main.py  two ThreadPoolExecutor rounds          *)
(*                                                                         *)
(* Representation of the program's strings:                                *)
(*   a time label "hh:mm AP"   is the tuple <<hh, mm, AP>>                 *)
(*   an ISO date "yyyy-mm-dd"  is the tuple <<yyyy, mm, dd>>               *)
(*   (zero padded fixed width fields: string order = tuple order)          *)
(*   a dict is the sequence of its <<key, value>> items in insertion order *)
(*   None is "None" (strings) or <<>> (labels and dicts)                   *)
(***************************************************************************)
EXTENDS Integers, Sequences, FiniteSets, TLC

VARIABLES
    variant,          \* which file serves the request: "app", "main", or "call" (a bare call of fetch_available_slots)
    today,            \* datetime.today().date() as a proleptic Gregorian ordinal
    site,             \* what the booking site holds: location -> HTML page (sequence of elements)
    fault,            \* the one fetch failure of this request so far: None, "request_exception" or "error"
    pc,               \* position of the request handler
    i,                \* loop variable of `for i in range(1, 8)`
    weekdays_dates,   \* list of date strings
    weekends_dates,   \* list of date strings
    k,                \* index of the next (date, location) pair to fetch / submit
    calls,            \* activations of fetch_available_slots (and, in the pool, the futures holding them)
    collected,        \* futures already yielded by as_completed
    data,             \* the four result dicts of generate_report
    nrequests,        \* how many outbound GETs have been issued so far
    printed,          \* the kinds of error lines written with print() so far
    result,           \* the dict generate_report returns
    http              \* the HTTP response of /execute

vars == <<variant, today, site, fault, pc, i, weekdays_dates, weekends_dates, k,
          calls, collected, data, nrequests, printed, result, http>>

None == "None"
NoLabel == <<>>
EmptyDict == <<>>

-----------------------------------------------------------------------------
(* Bounds of the model *)

\* fetch_available_slots alone: the page holds at most MaxSlots elements
MaxSlots == 2
\* the date partitioner alone: today ranges over DateSpan consecutive days
DateSpan == 70
\* thread pool: a worker starts a task only if it is at most MaxAhead tasks
\* beyond the oldest future not yet collected
MaxAhead == 1
\* the second thread pool alone: a worker starts a task only if it is at most
\* MaxWindow tasks beyond the oldest future not yet collected
MaxWindow == 2
\* the report formatter alone: the date's label list holds at most MaxTimes labels
MaxTimes == 3

-----------------------------------------------------------------------------
(* Constants of the program *)

T(h, m, ap) == <<h, m, ap>>

WEEKDAY_TIMES ==
    << T(7,0,"PM"), T(8,0,"PM"), T(9,0,"PM"), T(10,0,"PM"), T(11,0,"PM") >>

WEEKEND_TIMES ==
    << T(11,0,"AM"), T(12,0,"PM"), T(1,0,"PM"), T(2,0,"PM"), T(3,0,"PM"), T(4,0,"PM"),
       T(5,0,"PM"), T(6,0,"PM"), T(7,0,"PM"), T(8,0,"PM"), T(9,0,"PM"), T(10,0,"PM") >>

EXPO_COURTS ==
    << "A1", "A2", "A3", "A4", "A5", "A6", "A7", "A8", "A9", "A10", "B11", "B12",
       "B13", "B14", "B15", "B16", "B17", "B18", "B19", "B20", "B21", "B22" >>

SIMS_COURTS ==
    << "P1", "P2", "P3", "P4", "P5", "P6", "P7", "P8",
       "D1", "D2", "D3", "D4", "D5", "D6", "D7", "D8" >>

FACILITY_IDS == [expo |-> "2967", sims |-> "2965"]

LOCATION_COURTS == [expo |-> EXPO_COURTS, sims |-> SIMS_COURTS]

max_workers == 8

Range(s) == { s[n] : n \in 1..Len(s) }

-----------------------------------------------------------------------------
(* datetime: ordinals, calendar dates, strftime / strptime *)

IsLeap(y) == (y % 4 = 0) /\ ((y % 100 # 0) \/ (y % 400 = 0))

DaysInMonth(y, m) ==
    IF m = 2 THEN (IF IsLeap(y) THEN 29 ELSE 28)
    ELSE IF m \in {4, 6, 9, 11} THEN 30 ELSE 31

RECURSIVE DaysBeforeMonth(_, _)
DaysBeforeMonth(y, m) ==
    IF m = 1 THEN 0 ELSE DaysBeforeMonth(y, m - 1) + DaysInMonth(y, m - 1)

DaysBeforeYear(y) ==
    (y - 1) * 365 + ((y - 1) \div 4) - ((y - 1) \div 100) + ((y - 1) \div 400)

\* datetime.strptime(date_str, "%Y-%m-%d"): the date of an ISO string, as an ordinal
StrptimeDate(s) == DaysBeforeYear(s[1]) + DaysBeforeMonth(s[1], s[2]) + s[3]

\* the_date.weekday(): Monday = 0 .. Sunday = 6
Weekday(ord) == (ord + 6) % 7

\* the_date.strftime('%Y-%m-%d'): ordinal -> <<year, month, day>>
StrftimeISO(ord) ==
    LET n0   == ord - 1
        n400 == n0 \div 146097
        r400 == n0 % 146097
        n100 == r400 \div 36524
        r100 == r400 % 36524
        n4   == r100 \div 1461
        r4   == r100 % 1461
        n1   == r4 \div 365
        n    == r4 % 365
        year == n400 * 400 + 1 + n100 * 100 + n4 * 4 + n1
    IN  IF n1 = 4 \/ n100 = 4
        THEN << year - 1, 12, 31 >>
        ELSE LET leap  == (n1 = 3) /\ ((n4 # 24) \/ (n100 = 3))
                 Dim(m) == IF m = 2 THEN (IF leap THEN 29 ELSE 28)
                           ELSE IF m \in {4, 6, 9, 11} THEN 30 ELSE 31
                 month == CHOOSE m \in 1..12 :
                            LET before == DaysBeforeMonth(IF leap THEN 4 ELSE 1, m)
                            IN  before <= n /\ n < before + Dim(m)
             IN  << year, month, n - DaysBeforeMonth(IF leap THEN 4 ELSE 1, month) + 1 >>

\* date_obj = strptime(date_str, "%Y-%m-%d") holds the fields year, month, day;
\* date_obj.strftime("%d %b %Y (%a)") prints them with the date's day of the
\* week: <<day, month, year, day of week>>
FormattedDate(date_str) ==
    << date_str[3], date_str[2], date_str[1], Weekday(StrptimeDate(date_str)) >>

\* order of two ISO date strings under Python's string comparison
StrLess(a, b) ==
    \/ a[1] < b[1]
    \/ a[1] = b[1] /\ a[2] < b[2]
    \/ a[1] = b[1] /\ a[2] = b[2] /\ a[3] < b[3]

\* mutant: the labels are ordered as strings
StrptimeTimeLexical(t) == t[1] * 1000 + t[2] * 10 + (IF t[3] = "PM" THEN 1 ELSE 0)

\* datetime.strptime(t, "%I:%M %p") as minutes after midnight
StrptimeTime(t) ==
    ((t[1] % 12) + (IF t[3] = "PM" THEN 12 ELSE 0)) * 60 + t[2]

-----------------------------------------------------------------------------
(* dicts and lists *)

Keys(d) == { d[n][1] : n \in 1..Len(d) }

Get(d, key, default) ==
    IF key \in Keys(d) THEN d[CHOOSE n \in 1..Len(d) : d[n][1] = key][2] ELSE default

\* d[key] = value
SetItem(d, key, value) ==
    IF key \in Keys(d)
    THEN [n \in 1..Len(d) |-> IF d[n][1] = key THEN <<key, value>> ELSE d[n]]
    ELSE Append(d, <<key, value>>)

\* d.setdefault(key, []).append(value)
SetDefaultAppend(d, key, value) == SetItem(d, key, Append(Get(d, key, <<>>), value))

\* sorted(keys) of a dict keyed by ISO date strings: the least key, then the
\* rest sorted (the least key is taken once and bound)
RECURSIVE SortedKeys(_)
SortedKeys(S) ==
    IF S = {} THEN <<>>
    ELSE CHOOSE sorted \in
            { <<lo>> \o SortedKeys(S \ {lo}) :
                lo \in { CHOOSE x \in S : \A y \in S : x = y \/ StrLess(x, y) } } : TRUE

\* list(d.keys())
KeyList(d) == [n \in 1..Len(d) |-> d[n][1]]

-----------------------------------------------------------------------------
(* fetch_available_slots *)

\* html.parser hands BeautifulSoup every attribute name in lower case
Lower(name) == IF name = "data-isBlocked" THEN "data-isblocked" ELSE name

\* BeautifulSoup(response.text, 'html.parser') on one element:
\* raw attributes (as the site wrote them) -> Tag.attrs
ParseElement(raw) ==
    [ n \in { Lower(a) : a \in DOMAIN raw } |->
        raw[CHOOSE a \in DOMAIN raw : Lower(a) = n] ]

ParsePage(page) == [ n \in 1..Len(page) |-> ParseElement(page[n]) ]

\* Tag.get(name, default)
TagGet(tag, name, default) == IF name \in DOMAIN tag THEN tag[name] ELSE default

IsSlotElement(tag) == {"time-slot", "facility-slot"} \subseteq TagGet(tag, "class", {})

\* soup.select('div.time-slot.facility-slot')
Select(soup) == SelectSeq(soup, IsSlotElement)

\* is_blocked = slot.get("data-isBlocked") == "1"
IsBlockedAttr(slot) == TagGet(slot, "data-isBlocked", None) = "1"

\* blocked_class = "blockedslot" in slot.get("class", [])
BlockedClass(slot) == "blockedslot" \in TagGet(slot, "class", {})

\* is_available = not (is_blocked or blocked_class)
IsAvailable(slot) == ~(IsBlockedAttr(slot) \/ BlockedClass(slot))

\* the condition of the `if` in the slot loop
SlotAccepted(slot, location, allowed_times) ==
    /\ TagGet(slot, "data-facility_name", None) \in Range(LOCATION_COURTS[location])
    /\ TagGet(slot, "data-starttime", NoLabel) \in Range(allowed_times)
    /\ IsAvailable(slot)

\* the slot loop: court_list after the first n slots
RECURSIVE SlotLoop(_, _, _, _)
SlotLoop(slots, n, location, allowed_times) ==
    IF n = 0 THEN EmptyDict
    ELSE LET slot == slots[n]
         IN  CHOOSE after \in
                { IF SlotAccepted(slot, location, allowed_times)
                  THEN SetDefaultAppend(court_list, slot["data-facility_name"],
                                        slot["data-starttime"])
                  ELSE court_list :
                    court_list \in { SlotLoop(slots, n - 1, location, allowed_times) } } : TRUE

\* the body of fetch_available_slots after a successful response
ParseAndFilter(page, location, allowed_times) ==
    LET slots == Select(ParsePage(page))
    IN  SlotLoop(slots, Len(slots), location, allowed_times)

\* what requests.get / raise_for_status can end in.  "error" stands for any
\* exception that is not a RequestException and so leaves the function.
\* Fault model: at most one fetch of a request ends in anything but "200".
RequestExceptions == {"connection", "timeout", "http_status"}
Outcomes == {"200"} \cup RequestExceptions \cup {"error"}

\* entry of fetch_available_slots: unknown location returns {} at once,
\* otherwise the GET is sent
Enter(date_str, location, allowed_times) ==
    [ date |-> date_str, location |-> location, allowed |-> allowed_times,
      stage |-> IF location \in DOMAIN FACILITY_IDS THEN "sent" ELSE "returned",
      resp |-> None, ret |-> EmptyDict, exc |-> None ]

\* the future of a submitted, not yet started task
Queued(date_str, location, allowed_times) ==
    [ date |-> date_str, location |-> location, allowed |-> allowed_times,
      stage |-> "queued", resp |-> None, ret |-> EmptyDict, exc |-> None ]

\* a future the as_completed loop is through with: nothing reads it again
Consumed(call) == [ call EXCEPT !.resp = None, !.ret = EmptyDict, !.exc = None ]

\* mutant: the RequestException is not caught and leaves the function
FinishUncaught(call, outcome) ==
    [ call EXCEPT
        !.stage = "returned",
        !.resp = outcome,
        !.ret = IF outcome = "200"
                THEN ParseAndFilter(site[call.location], call.location, call.allowed)
                ELSE EmptyDict,
        !.exc = IF outcome = "200" THEN None ELSE "error" ]

\* mutant: a GET without timeout never returns where the timeout would strike
FinishHangsOnTimeout(call, outcome) ==
    IF outcome = "timeout"
    THEN [ call EXCEPT !.stage = "hung" ]
    ELSE [ call EXCEPT
             !.stage = "returned",
             !.resp = outcome,
             !.ret = IF outcome = "200"
                     THEN ParseAndFilter(site[call.location], call.location, call.allowed)
                     ELSE EmptyDict,
             !.exc = IF outcome = "error" THEN "error" ELSE None ]

\* the rest of fetch_available_slots once requests.get has ended in `outcome`
Finish(call, outcome) ==
    [ call EXCEPT
        !.stage = "returned",
        !.resp = outcome,
        !.ret = IF outcome = "200"
                THEN ParseAndFilter(site[call.location], call.location, call.allowed)
                ELSE EmptyDict,
        !.exc = IF outcome = "error" THEN "error" ELSE None ]

InFlight == { id \in DOMAIN calls : calls[id].stage = "sent" }

\* requests.get returns, times out or fails, and the function runs to its end
FetchReturn ==
    \E id \in InFlight, outcome \in Outcomes :
        /\ outcome = "200" \/ fault = None
        /\ fault' = IF outcome = "200" THEN fault
                    ELSE IF outcome \in RequestExceptions THEN "request_exception" ELSE "error"
        /\ calls' = [calls EXCEPT ![id] = Finish(calls[id], outcome)]
        /\ printed' = IF outcome \in RequestExceptions
                      THEN printed \cup {"fetch_error"}
                      ELSE printed
        /\ UNCHANGED <<variant, today, site, pc, i, weekdays_dates, weekends_dates, k,
                       collected, data, nrequests, result, http>>

-----------------------------------------------------------------------------
(* generate_report: the (date, location) pairs, the result dicts *)

\* mutant: every fetch is issued with the weekend set
DayTasksWeekendTimes(days, day_type, allowed_times) ==
    [ n \in 1..(2 * Len(days)) |->
        [ date |-> days[(n + 1) \div 2],
          location |-> IF n % 2 = 1 THEN "expo" ELSE "sims",
          allowed |-> WEEKEND_TIMES,
          day_type |-> day_type ] ]

\* the fetches of one day list, in the order of the `for day in ...` loops:
\* expo then sims for each day
DayTasks(days, day_type, allowed_times) ==
    [ n \in 1..(2 * Len(days)) |->
        [ date |-> days[(n + 1) \div 2],
          location |-> IF n % 2 = 1 THEN "expo" ELSE "sims",
          allowed |-> allowed_times,
          day_type |-> day_type ] ]

\* weekday loop, then weekend loop
Tasks ==
    DayTasks(weekdays_dates, "weekday", WEEKDAY_TIMES)
        \o DayTasks(weekends_dates, "weekend", WEEKEND_TIMES)

NoData ==
    [ expo_weekday_data |-> EmptyDict, sims_weekday_data |-> EmptyDict,
      expo_weekend_data |-> EmptyDict, sims_weekend_data |-> EmptyDict ]

\* <dict of (location, day_type)>[date_str] = courts_data
Store(d, task, courts_data) ==
    IF task.day_type = "weekday"
    THEN IF task.location = "expo"
         THEN [d EXCEPT !.expo_weekday_data = SetItem(@, task.date, courts_data)]
         ELSE [d EXCEPT !.sims_weekday_data = SetItem(@, task.date, courts_data)]
    ELSE IF task.location = "expo"
         THEN [d EXCEPT !.expo_weekend_data = SetItem(@, task.date, courts_data)]
         ELSE [d EXCEPT !.sims_weekend_data = SetItem(@, task.date, courts_data)]

-----------------------------------------------------------------------------
(* generate_report: the report formatter *)

\* mutant: only the first court's times are taken
UniqueTimesFirstCourt(courts_data) ==
    IF courts_data = << >> THEN {} ELSE Range(courts_data[1][2])

\* unique_times = set(); for times in courts_data.values(): unique_times.update(times)
UniqueTimes(courts_data) ==
    UNION { Range(courts_data[n][2]) : n \in 1..Len(courts_data) }

\* sorted(list(unique_times), key=lambda t: datetime.strptime(t, "%I:%M %p"))
\* the label of the least key, then the rest sorted (the least is taken once
\* and bound)
RECURSIVE SortedTimes(_)
SortedTimes(S) ==
    IF S = {} THEN <<>>
    ELSE CHOOSE sorted \in
            { <<lo>> \o SortedTimes(S \ {lo}) :
                lo \in { CHOOSE x \in S : \A y \in S : StrptimeTime(x) <= StrptimeTime(y) } } : TRUE

\* mutant: a date needs two distinct times to count as available
HasTimesAtLeastTwo(unique_times) == Cardinality(unique_times) > 1

\* mutant: every date counts as available
HasTimesAlways(unique_times) == TRUE

\* the truth test `if unique_times:`
HasTimes(unique_times) == unique_times # {}

\* the line of one date
EntryLine(date_str, courts_data) ==
    LET formatted_date == FormattedDate(date_str)
        unique_times == UniqueTimes(courts_data)
        sorted_times == SortedTimes(unique_times)
    IN  IF HasTimes(unique_times)
        THEN << "available", formatted_date, sorted_times >>
        ELSE << "no_timeslots", formatted_date >>

\* mutant: main.py too walks its dict in insertion order
SectionOrderInsertion(v, d) == KeyList(d)

\* the order in which a section walks its dict:
\* app.py `for date_str, courts_data in d.items()`, main.py `for date_str in sorted(d.keys())`
SectionOrder(v, d) == IF v = "main" THEN SortedKeys(Keys(d)) ELSE KeyList(d)

Section(v, d) ==
    LET order == SectionOrder(v, d)
    IN  [ n \in 1..Len(order) |-> EntryLine(order[n], Get(d, order[n], EmptyDict)) ]

\* output_parts.  The "Data as of" line of app.py carries the wall clock,
\* which is left out of the line.
OutputParts(v, d) ==
    (IF v = "main" THEN << <<"title">> >> ELSE << <<"title">>, <<"data_as_of">> >>)
    \o << <<"heading", "weekday">>, <<"courts", "expo">> >> \o Section(v, d.expo_weekday_data)
    \o << <<"courts", "sims">> >> \o Section(v, d.sims_weekday_data)
    \o << <<"heading", "weekend">>, <<"courts", "expo">> >> \o Section(v, d.expo_weekend_data)
    \o << <<"courts", "sims">> >> \o Section(v, d.sims_weekend_data)

\* the dict of the normal return; "\n".join(output_parts) keeps the lines in order
Report(v, d) == [ message |-> <<"report", OutputParts(v, d)>>, image |-> None ]

\* the dict of the `except Exception` branch
ErrorReport == [ message |-> <<"unexpected_error">>, image |-> None ]

NoResult == [ message |-> <<"unset">>, image |-> None ]
NoResponse == [ status |-> 0, body |-> NoResult ]

\* jsonify(result): Flask answers 200 with the dict as a JSON object
Jsonify(r) == [ status |-> 200, body |-> r ]

-----------------------------------------------------------------------------
(* generate_report and handle_execute: the steps *)

\* mutant: Sunday alone counts as weekend
IsWeekendSundayOnly(the_date) == Weekday(the_date) >= 6

\* the_date.weekday() >= 5: 5 is Saturday, 6 is Sunday
IsWeekend(the_date) == Weekday(the_date) >= 5

\* one turn of `for i in range(1, 8)`; after the last, on to the fetches
DateStep ==
    /\ pc = "dates"
    /\ LET the_date == today + i
           date_str == StrftimeISO(the_date)
       IN  IF IsWeekend(the_date)
           THEN /\ weekends_dates' = Append(weekends_dates, date_str)
                /\ UNCHANGED weekdays_dates
           ELSE /\ weekdays_dates' = Append(weekdays_dates, date_str)
                /\ UNCHANGED weekends_dates
    /\ i' = i + 1
    /\ pc' = IF i + 1 < 8 THEN "dates"
             ELSE IF variant = "main" THEN "submit1" ELSE "fetch"
    /\ UNCHANGED <<variant, today, site, fault, k, calls, collected, data,
                   nrequests, printed, result, http>>

\* mutant: the next call is issued while the one before is still out
AppCallNoWait ==
    /\ variant = "app"
    /\ pc = "fetch"
    /\ Cardinality(DOMAIN calls) < 2
    /\ LET task == Tasks[k]
       IN  calls' = calls @@ (Cardinality(DOMAIN calls) :> Enter(task.date, task.location, task.allowed))
    /\ nrequests' = nrequests + 1
    /\ UNCHANGED <<variant, today, site, fault, pc, i, weekdays_dates, weekends_dates,
                   k, collected, data, printed, result, http>>

\* app.py: the call of fetch_available_slots in `d[day] = fetch_available_slots(...)`
AppCall ==
    /\ variant = "app"
    /\ pc = "fetch"
    /\ DOMAIN calls = {}
    /\ LET task == Tasks[k]
       IN  calls' = (0 :> Enter(task.date, task.location, task.allowed))
    /\ nrequests' = nrequests + 1
    /\ UNCHANGED <<variant, today, site, fault, pc, i, weekdays_dates, weekends_dates,
                   k, collected, data, printed, result, http>>

\* app.py: the call has returned; the assignment `d[day] = ...`, or the
\* exception on its way to the `except Exception` of generate_report
AppAssign ==
    /\ variant = "app"
    /\ pc = "fetch"
    /\ 0 \in DOMAIN calls
    /\ calls[0].stage = "returned"
    /\ calls' = << >>
    /\ IF calls[0].exc # None
       THEN /\ pc' = "except"
            /\ UNCHANGED <<data, k>>
       ELSE /\ data' = Store(data, Tasks[k], calls[0].ret)
            /\ k' = k + 1
            /\ pc' = IF k + 1 > Len(Tasks) THEN "format" ELSE "fetch"
    /\ UNCHANGED <<variant, today, site, fault, i, weekdays_dates, weekends_dates,
                   collected, nrequests, printed, result, http>>

\* main.py: one executor.submit(fetch_available_slots, ...) of the first or
\* the second `with ThreadPoolExecutor` block; after the last, as_completed
Submit ==
    /\ variant = "main"
    /\ pc \in {"submit1", "submit2"}
    /\ LET task == Tasks[k]
       IN  calls' = calls @@ (k :> Queued(task.date, task.location, task.allowed))
    /\ k' = k + 1
    /\ pc' = IF k + 1 <= Len(Tasks) THEN pc
             ELSE IF pc = "submit1" THEN "collect1" ELSE "collect2"
    /\ UNCHANGED <<variant, today, site, fault, i, weekdays_dates, weekends_dates,
                   collected, data, nrequests, printed, result, http>>

Running == { id \in DOMAIN calls : calls[id].stage = "sent" }
QueuedIds == { id \in DOMAIN calls : calls[id].stage = "queued" }

\* the oldest future as_completed has not yielded yet
Oldest ==
    LET left == (1..14) \ collected
    IN  IF left = {} THEN 15 ELSE CHOOSE n \in left : \A m \in left : n <= m

\* main.py: a pool thread takes the next work item off the queue and enters
\* fetch_available_slots
WorkerStart ==
    /\ variant = "main"
    /\ QueuedIds # {}
    /\ Cardinality(Running) < max_workers
    /\ LET id == CHOOSE n \in QueuedIds : \A m \in QueuedIds : n <= m
       IN  /\ id <= Oldest + MaxAhead
           /\ calls' = [calls EXCEPT ![id] = Enter(@.date, @.location, @.allowed)]
    /\ nrequests' = nrequests + 1
    /\ UNCHANGED <<variant, today, site, fault, pc, i, weekdays_dates, weekends_dates,
                   k, collected, data, printed, result, http>>

\* the same step with the wider window of the second pool taken alone
WorkerStartWide ==
    /\ variant = "main"
    /\ QueuedIds # {}
    /\ Cardinality(Running) < max_workers
    /\ LET id == CHOOSE n \in QueuedIds : \A m \in QueuedIds : n <= m
       IN  /\ id <= Oldest + MaxWindow
           /\ calls' = [calls EXCEPT ![id] = Enter(@.date, @.location, @.allowed)]
    /\ nrequests' = nrequests + 1
    /\ UNCHANGED <<variant, today, site, fault, pc, i, weekdays_dates, weekends_dates,
                   k, collected, data, printed, result, http>>

Done == { id \in DOMAIN calls : calls[id].stage = "returned" }

\* main.py, first pool: one turn of `for future in as_completed(tasks)`, whose
\* body only reads future.result(); after the last the `with` block is left
Collect1 ==
    /\ pc = "collect1"
    /\ \E id \in Done \ collected :
        /\ printed' = IF calls[id].exc # None
                      THEN printed \cup {"task_exception"}
                      ELSE printed
        /\ IF collected \cup {id} = DOMAIN calls
           THEN /\ pc' = "submit2"
                /\ calls' = << >>
                /\ collected' = {}
                /\ k' = 1
           ELSE /\ collected' = collected \cup {id}
                /\ calls' = [calls EXCEPT ![id] = Consumed(@)]
                /\ UNCHANGED <<pc, k>>
    /\ UNCHANGED <<variant, today, site, fault, i, weekdays_dates, weekends_dates,
                   data, nrequests, result, http>>

\* mutant: nothing is recorded for a future that raised
Collect2SkipsRaised ==
    /\ pc = "collect2"
    /\ \E id \in Done \ collected :
        /\ IF calls[id].exc = None
           THEN /\ data' = Store(data, Tasks[id], calls[id].ret)
                /\ UNCHANGED printed
           ELSE /\ UNCHANGED data
                /\ printed' = printed \cup {"task_exception"}
        /\ collected' = collected \cup {id}
        /\ calls' = [calls EXCEPT ![id] = Consumed(@)]
        /\ pc' = IF collected \cup {id} = DOMAIN calls THEN "format" ELSE pc
    /\ UNCHANGED <<variant, today, site, fault, i, weekdays_dates, weekends_dates, k,
                   nrequests, result, http>>

\* mutant: the as_completed loop is left with one future still out
Collect2LeavesEarly ==
    /\ pc = "collect2"
    /\ \E id \in Done \ collected :
        /\ IF calls[id].exc = None
           THEN /\ data' = Store(data, Tasks[id], calls[id].ret)
                /\ UNCHANGED printed
           ELSE /\ data' = Store(data, Tasks[id], EmptyDict)
                /\ printed' = printed \cup {"task_exception"}
        /\ collected' = collected \cup {id}
        /\ calls' = [calls EXCEPT ![id] = Consumed(@)]
        /\ pc' = IF Cardinality(collected \cup {id}) >= 13 THEN "format" ELSE pc
    /\ UNCHANGED <<variant, today, site, fault, i, weekdays_dates, weekends_dates, k,
                   nrequests, result, http>>

\* mutant: the map is written for a future whose fetch has not completed
Collect2NotDone ==
    /\ pc = "collect2"
    /\ \E id \in (DOMAIN calls) \ collected :
        /\ data' = Store(data, Tasks[id], calls[id].ret)
        /\ collected' = collected \cup {id}
        /\ calls' = [calls EXCEPT ![id] = [Consumed(@) EXCEPT !.stage = "returned"]]
        /\ pc' = IF collected \cup {id} = DOMAIN calls THEN "format" ELSE pc
    /\ UNCHANGED <<variant, today, site, fault, i, weekdays_dates, weekends_dates, k,
                   nrequests, printed, result, http>>

\* main.py, second pool: one turn of `for future in as_completed(future_to_params)`
Collect2 ==
    /\ pc = "collect2"
    /\ \E id \in Done \ collected :
        /\ IF calls[id].exc = None
           THEN /\ data' = Store(data, Tasks[id], calls[id].ret)
                /\ UNCHANGED printed
           ELSE /\ data' = Store(data, Tasks[id], EmptyDict)
                /\ printed' = printed \cup {"task_exception"}
        /\ collected' = collected \cup {id}
        /\ calls' = [calls EXCEPT ![id] = Consumed(@)]
        /\ pc' = IF collected \cup {id} = DOMAIN calls THEN "format" ELSE pc
    /\ UNCHANGED <<variant, today, site, fault, i, weekdays_dates, weekends_dates, k,
                   nrequests, result, http>>

\* the formatting block and the normal `return`
Format ==
    /\ pc = "format"
    /\ result' = Report(variant, data)
    /\ pc' = "respond"
    /\ UNCHANGED <<variant, today, site, fault, i, weekdays_dates, weekends_dates, k,
                   calls, collected, data, nrequests, printed, http>>

\* mutant: the exception is raised again and leaves the handler
ExceptReraise ==
    /\ pc = "except"
    /\ http' = [ status |-> 500, body |-> NoResult ]
    /\ pc' = "crashed"
    /\ UNCHANGED <<variant, today, site, fault, i, weekdays_dates, weekends_dates, k,
                   calls, collected, data, nrequests, printed, result>>

\* the `except Exception as e` branch of generate_report
Except ==
    /\ pc = "except"
    /\ result' = ErrorReport
    /\ printed' = printed \cup {"traceback"}
    /\ pc' = "respond"
    /\ UNCHANGED <<variant, today, site, fault, i, weekdays_dates, weekends_dates, k,
                   calls, collected, data, nrequests, http>>

\* handle_execute: return jsonify(result)
Respond ==
    /\ pc = "respond"
    /\ http' = Jsonify(result)
    /\ pc' = "done"
    /\ UNCHANGED <<variant, today, site, fault, i, weekdays_dates, weekends_dates, k,
                   calls, collected, data, nrequests, printed, result>>

\* a bare call fetch_available_slots(date_str, location, allowed_times)
Call ==
    /\ variant = "call"
    /\ pc = "call"
    /\ \E location \in {"expo", "sims", "gym"}, allowed_times \in {WEEKDAY_TIMES, WEEKEND_TIMES} :
        LET c == Enter(StrftimeISO(today + 1), location, allowed_times)
        IN  /\ calls' = (0 :> c)
            /\ nrequests' = IF c.stage = "sent" THEN nrequests + 1 ELSE nrequests
    /\ pc' = "called"
    /\ UNCHANGED <<variant, today, site, fault, i, weekdays_dates, weekends_dates, k,
                   collected, data, printed, result, http>>

-----------------------------------------------------------------------------
(* Inputs *)

FirstDay == StrptimeDate(<<2027, 12, 25>>)

\* one element of the site's HTML, with the attributes as the site writes them
RawSlot(court, time, blocked, classes) ==
    ("class" :> classes) @@ ("data-facility_name" :> court) @@ ("data-starttime" :> time)
      @@ (IF blocked = None THEN << >> ELSE ("data-isBlocked" :> blocked))

SlotClasses == {"time-slot", "facility-slot"}

Slot(court, time) == RawSlot(court, time, "0", SlotClasses)

\* pages of the site for whole requests: location -> page
Worlds ==
    { [ expo |-> << Slot("A1", T(8,0,"PM")), Slot("A2", T(8,0,"PM")) >>,
        sims |-> << RawSlot("P1", T(7,0,"PM"), "0", SlotClasses \cup {"blockedslot"}),
                    Slot("A1", T(8,0,"PM")), Slot("P2", T(6,30,"PM")),
                    RawSlot("P3", T(9,0,"PM"), None, {"time-slot"}) >> ],
      [ expo |-> << Slot("A1", T(7,0,"PM")), Slot("A2", T(9,0,"PM")) >>,
        sims |-> << Slot("P1", T(9,0,"PM")), Slot("P1", T(7,0,"PM")) >> ],
      [ expo |-> << Slot("A1", T(10,0,"PM")), Slot("B11", T(1,0,"PM")),
                    Slot("A1", T(12,0,"PM")), Slot("A2", T(11,0,"AM")),
                    Slot("A1", T(1,0,"PM")) >>,
        sims |-> << RawSlot("D2", T(9,0,"PM"), "1", SlotClasses),
                    RawSlot("D3", T(11,0,"PM"), None, SlotClasses),
                    Slot("D3", T(12,0,"PM")) >> ] }

\* elements and pages for bare calls of fetch_available_slots
TestElements ==
    { RawSlot(court, time, blocked, classes) :
        court \in {"A1", "P1"},
        time \in {T(7,0,"PM"), T(11,0,"AM"), T(6,0,"PM")},
        blocked \in {None, "1"},
        classes \in {SlotClasses, SlotClasses \cup {"blockedslot"}} }

TestPages == UNION { [1..n -> TestElements] : n \in 0..MaxSlots }

-----------------------------------------------------------------------------
(* Specifications *)

InitCommon ==
    /\ fault = None
    /\ i = 1
    /\ weekdays_dates = << >>
    /\ weekends_dates = << >>
    /\ k = 1
    /\ calls = << >>
    /\ collected = {}
    /\ data = NoData
    /\ nrequests = 0
    /\ printed = {}
    /\ result = NoResult
    /\ http = NoResponse

\* a POST /execute arrives
Init ==
    /\ variant \in {"app", "main"}
    /\ today = FirstDay
    /\ site \in Worlds
    /\ pc = "dates"
    /\ InitCommon

Next ==
    \/ DateStep
    \/ AppCall
    \/ AppAssign
    \/ Submit
    \/ WorkerStart
    \/ FetchReturn
    \/ Collect1
    \/ Collect2
    \/ Format
    \/ Except
    \/ Respond

Spec == Init /\ [][Next]_vars

\* the steps of the thread that serves the request
HandlerStep ==
    \/ DateStep
    \/ AppCall
    \/ AppAssign
    \/ Submit
    \/ Collect1
    \/ Collect2
    \/ Format
    \/ Except
    \/ Respond

\* every GET returns or times out (timeout=10), the pool's threads run, and
\* so does the handler's thread
Fairness ==
    /\ WF_vars(FetchReturn)
    /\ WF_vars(WorkerStart)
    /\ WF_vars(HandlerStep)

LiveSpec == Init /\ [][Next]_vars /\ Fairness

\* the date partitioner on its own
InitDates ==
    /\ variant = "app"
    /\ today \in FirstDay..(FirstDay + DateSpan - 1)
    /\ site = [expo |-> << >>, sims |-> << >>]
    /\ pc = "dates"
    /\ InitCommon

NextDates == DateStep

SpecDates == InitDates /\ [][NextDates]_vars

\* fetch_available_slots on its own
InitFetch ==
    /\ variant = "call"
    /\ today = FirstDay
    /\ \E page \in TestPages : site = [expo |-> page, sims |-> page]
    /\ pc = "call"
    /\ InitCommon

NextFetch == Call \/ FetchReturn

SpecFetch == InitFetch /\ [][NextFetch]_vars

\* the report formatter on its own: every date without slots but one, whose
\* courts_data is drawn from the label lists of at most MaxTimes labels
RECURSIVE DatesOf(_, _, _)
DatesOf(day, n, weekend) ==
    IF n = 0 THEN << >>
    ELSE DatesOf(day, n - 1, weekend)
           \o (IF IsWeekend(day + n) = weekend THEN << StrftimeISO(day + n) >> ELSE << >>)

AllEmpty(days) == [ n \in 1..Len(days) |-> << days[n], EmptyDict >> ]

LabelLists(labels) == UNION { [1..n -> Range(labels)] : n \in 1..MaxTimes }

\* the labels of `times` as one court's list, or spread over two courts
CourtsData(times, c1, c2, split) ==
    IF split /\ Len(times) >= 2
    THEN << << c1, SubSeq(times, 1, 1) >>, << c2, SubSeq(times, 2, Len(times)) >> >>
    ELSE << << c1, times >> >>

FormatWeekdays == DatesOf(FirstDay, 7, FALSE)
FormatWeekends == DatesOf(FirstDay, 7, TRUE)

NothingFound ==
    [ expo_weekday_data |-> AllEmpty(FormatWeekdays), sims_weekday_data |-> AllEmpty(FormatWeekdays),
      expo_weekend_data |-> AllEmpty(FormatWeekends), sims_weekend_data |-> AllEmpty(FormatWeekends) ]

FormatInputs ==
    { [NothingFound EXCEPT !.expo_weekday_data =
          SetItem(@, FormatWeekdays[2], CourtsData(times, "A1", "A2", split))] :
        times \in LabelLists(WEEKDAY_TIMES), split \in BOOLEAN }
    \cup
    { [NothingFound EXCEPT !.sims_weekend_data =
          SetItem(@, FormatWeekends[1], CourtsData(times, "P1", "D1", split))] :
        times \in LabelLists(WEEKEND_TIMES), split \in BOOLEAN }

InitFormat ==
    /\ variant \in {"app", "main"}
    /\ today = FirstDay
    /\ site = [expo |-> << >>, sims |-> << >>]
    /\ pc = "format"
    /\ fault = None
    /\ i = 8
    /\ weekdays_dates = FormatWeekdays
    /\ weekends_dates = FormatWeekends
    /\ k = 15
    /\ calls = << >>
    /\ collected = {}
    /\ data \in FormatInputs
    /\ nrequests = 14
    /\ printed = {}
    /\ result = NoResult
    /\ http = NoResponse

NextFormat == Format \/ Respond

SpecFormat == InitFormat /\ [][NextFormat]_vars

\* main.py from the second `with ThreadPoolExecutor` block on, the first
\* block having run without a failure
PoolWorld ==
    [ expo |-> << Slot("A1", T(7,0,"PM")), Slot("A2", T(9,0,"PM")) >>,
      sims |-> << Slot("P1", T(9,0,"PM")), Slot("P1", T(7,0,"PM")) >> ]

InitPool ==
    /\ variant = "main"
    /\ today = FirstDay
    /\ site = PoolWorld
    /\ pc = "submit2"
    /\ fault = None
    /\ i = 8
    /\ weekdays_dates = FormatWeekdays
    /\ weekends_dates = FormatWeekends
    /\ k = 1
    /\ calls = << >>
    /\ collected = {}
    /\ data = NoData
    /\ nrequests = 14
    /\ printed = {}
    /\ result = NoResult
    /\ http = NoResponse

NextPool ==
    \/ Submit
    \/ WorkerStartWide
    \/ FetchReturn
    \/ Collect2
    \/ Format
    \/ Respond

SpecPool == InitPool /\ [][NextPool]_vars

-----------------------------------------------------------------------------
(* Properties *)

Count(seq, x) == Cardinality({ n \in 1..Len(seq) : seq[n] = x })

\* day of the week of a calendar date by Zeller's congruence:
\* 0 = Saturday, 1 = Sunday, 2 = Monday, ...
Zeller(date_str) ==
    LET y0 == date_str[1]
        m0 == date_str[2]
        q  == date_str[3]
        m  == IF m0 < 3 THEN m0 + 12 ELSE m0
        y  == IF m0 < 3 THEN y0 - 1 ELSE y0
        K  == y % 100
        J  == y \div 100
    IN  (q + ((13 * (m + 1)) \div 5) + K + (K \div 4) + (J \div 4) + 5 * J) % 7

\* C1 (as claimed): after a successful response every slot element of the page
\* contributes its time label to its court's list exactly when its court is one
\* of the location's courts, its label is in allowed_times, and the element
\* carries neither the blocked attribute (data-isBlocked="1") nor the
\* blockedslot class; nothing else is in the result.
C1_SlotIncludedIff ==
    \A id \in DOMAIN calls :
        LET c == calls[id]
            page == site[c.location]
            Contributes(raw) ==
                /\ {"time-slot", "facility-slot"} \subseteq raw["class"]
                /\ raw["data-facility_name"] \in Range(LOCATION_COURTS[c.location])
                /\ raw["data-starttime"] \in Range(c.allowed)
                /\ ~("data-isBlocked" \in DOMAIN raw /\ raw["data-isBlocked"] = "1")
                /\ "blockedslot" \notin raw["class"]
            courts == { page[n]["data-facility_name"] : n \in 1..Len(page) } \cup Keys(c.ret)
            labels == { page[n]["data-starttime"] : n \in 1..Len(page) }
                        \cup UNION { Range(c.ret[n][2]) : n \in 1..Len(c.ret) }
        IN  (c.stage = "returned" /\ c.resp = "200") =>
                \A court \in courts, t \in labels :
                    Count(Get(c.ret, court, << >>), t)
                      = Cardinality({ n \in 1..Len(page) :
                                        /\ page[n]["data-facility_name"] = court
                                        /\ page[n]["data-starttime"] = t
                                        /\ Contributes(page[n]) })

\* C5: a call whose request fails by connection error, timeout or non-success
\* status returns the empty mapping, raises nothing, and has sent one request.
C5_FailureReturnsEmpty ==
    \A id \in DOMAIN calls :
        (calls[id].stage = "returned" /\ calls[id].resp \in RequestExceptions) =>
            /\ calls[id].ret = EmptyDict
            /\ calls[id].exc = None
            /\ nrequests = 1

\* C5 witness: a call has timed out although the page held a slot it would have returned
C5_Witness ==
    \E id \in DOMAIN calls :
        /\ calls[id].stage = "returned"
        /\ calls[id].resp = "timeout"
        /\ calls[id].ret = EmptyDict
        /\ ParseAndFilter(site[calls[id].location], calls[id].location, calls[id].allowed) # EmptyDict

\* C8: once the date loop is over, the two lists hold exactly the dates
\* today+1 .. today+7, a date is in the weekend list iff it falls on a Saturday
\* or a Sunday, the lists are disjoint, and each is in ascending date order.
C8_DatePartition ==
    pc # "dates" =>
        LET wd == weekdays_dates
            we == weekends_dates
        IN  /\ Len(wd) + Len(we) = 7
            /\ { StrptimeDate(d) : d \in Range(wd) \cup Range(we) } = (today + 1)..(today + 7)
            /\ \A d \in Range(wd) \cup Range(we) :
                /\ d[2] \in 1..12 /\ d[3] \in 1..DaysInMonth(d[1], d[2])
                /\ d \in Range(we) <=> Zeller(d) \in {0, 1}
                /\ d \in Range(wd) <=> Zeller(d) \notin {0, 1}
            /\ \A a, b \in 1..Len(wd) : a < b => StrptimeDate(wd[a]) < StrptimeDate(wd[b])
            /\ \A a, b \in 1..Len(we) : a < b => StrptimeDate(we[a]) < StrptimeDate(we[b])

\* C8 witness: the loop is over and the window held 29 February 2028, a Tuesday
C8_Witness ==
    /\ pc # "dates"
    /\ <<2028, 2, 29>> \in Range(weekdays_dates)
    /\ Len(weekends_dates) = 2

-----------------------------------------------------------------------------
(* Reading the report *)

\* a normal report has been built
ReportDone == pc \in {"respond", "done"} /\ result.message[1] = "report"

Lines == result.message[2]

\* the (day type, location, date) combinations of the request
Pairs ==
    { [day_type |-> "weekday", location |-> l, date |-> d] :
        l \in {"expo", "sims"}, d \in Range(weekdays_dates) }
    \cup
    { [day_type |-> "weekend", location |-> l, date |-> d] :
        l \in {"expo", "sims"}, d \in Range(weekends_dates) }

\* what the fetch stage handed over for a pair
CourtsDataOf(p) ==
    LET d == IF p.day_type = "weekday"
             THEN (IF p.location = "expo" THEN data.expo_weekday_data ELSE data.sims_weekday_data)
             ELSE (IF p.location = "expo" THEN data.expo_weekend_data ELSE data.sims_weekend_data)
    IN  Get(d, p.date, EmptyDict)

\* the distinct time labels over all courts
DistinctTimes(courts_data) ==
    { t \in UNION { Range(courts_data[n][2]) : n \in 1..Len(courts_data) } : TRUE }

\* time of day of a 12-hour label, in minutes
Minutes(t) ==
    CASE t[3] = "AM" /\ t[1] = 12 -> t[2]
      [] t[3] = "AM" /\ t[1] # 12 -> 60 * t[1] + t[2]
      [] t[3] = "PM" /\ t[1] = 12 -> 720 + t[2]
      [] t[3] = "PM" /\ t[1] # 12 -> 720 + 60 * t[1] + t[2]

\* the headings of a day type and the courts lines of a location
HeadingIdx(day_type) ==
    { h \in 1..Len(Lines) : Lines[h][1] = "heading" /\ Lines[h][2] = day_type }

CourtsIdx(location) ==
    { c \in 1..Len(Lines) : Lines[c][1] = "courts" /\ Lines[c][2] = location }

\* where the lines of a pair's date stand in the report: below the heading of
\* its day type and the courts line of its location
EntryIdx(p) ==
    LET H == HeadingIdx(p.day_type)
        C == CourtsIdx(p.location)
        formatted_date == FormattedDate(p.date)
    IN  { n \in 1..Len(Lines) :
            /\ Lines[n][1] \in {"available", "no_timeslots"}
            /\ Lines[n][2] = formatted_date
            /\ \E h \in H :
                /\ h < n
                /\ \A m \in (h + 1)..(n - 1) : Lines[m][1] # "heading"
                /\ \E c \in C :
                    /\ h < c /\ c < n
                    /\ \A m \in (c + 1)..(n - 1) : Lines[m][1] # "courts" }

HasOneLine(p) == Cardinality(EntryIdx(p)) = 1
LineOf(p) == Lines[CHOOSE n \in EntryIdx(p) : TRUE]

IsNoTimeslots(line) == Len(line) = 2 /\ line[1] = "no_timeslots"
IsAvailableLine(line) == Len(line) = 3 /\ line[1] = "available"

Ascending(times) ==
    \A a, b \in 1..Len(times) : a < b => Minutes(times[a]) < Minutes(times[b])

-----------------------------------------------------------------------------
(* Properties of the report *)

\* C2 (as claimed): a date with exactly one distinct available time label
\* gets the "insufficient slots" line and no listing of times.
C2_InsufficientSlotsLine ==
    ReportDone =>
        \A p \in Pairs :
            Cardinality(DistinctTimes(CourtsDataOf(p))) = 1 =>
                /\ HasOneLine(p)
                /\ LineOf(p)[1] = "insufficient_slots"

\* C2 (amended): a date with exactly one distinct available time label gets
\* the one availability line of its date, listing that single label.
C2_SingleTimeListed ==
    ReportDone =>
        \A p \in Pairs :
            LET times == DistinctTimes(CourtsDataOf(p))
                E == EntryIdx(p)
                line == Lines[CHOOSE n \in E : TRUE]
            IN  Cardinality(times) = 1 =>
                    /\ Cardinality(E) = 1
                    /\ IsAvailableLine(line)
                    /\ Len(line[3]) = 1
                    /\ line[3][1] \in times

\* C2 witness: A1 -> [08:00 PM], A2 -> [08:00 PM] has been reported
C2_Witness ==
    /\ ReportDone
    /\ \E p \in Pairs :
        /\ CourtsDataOf(p) = << <<"A1", <<T(8,0,"PM")>> >>, <<"A2", <<T(8,0,"PM")>> >> >>
        /\ LineOf(p) = << "available", FormattedDate(p.date), << T(8,0,"PM") >> >>

\* the times of a date grouped by court
Grouping(courts_data) == { Range(courts_data[n][2]) : n \in 1..Len(courts_data) }

\* C3 (as claimed): a date with two or more distinct labels shows each court
\* with its own times, so which times belong to one court can be read off the
\* report: two dates listed alike have their times grouped by court alike.
C3_CourtRecoverable ==
    ReportDone =>
        \A p, q \in Pairs :
            ( /\ Cardinality(DistinctTimes(CourtsDataOf(p))) >= 2
              /\ Cardinality(DistinctTimes(CourtsDataOf(q))) >= 2
              /\ HasOneLine(p) /\ HasOneLine(q)
              /\ LineOf(p)[3] = LineOf(q)[3] )
            => Grouping(CourtsDataOf(p)) = Grouping(CourtsDataOf(q))

\* C3 (amended): a date with two or more distinct labels gets the one
\* availability line of its date, listing each distinct label of the date once,
\* over all courts together and in time-of-day order, and no court name.
C3_MergedTimesListed ==
    ReportDone =>
        \A p \in Pairs :
            LET times == DistinctTimes(CourtsDataOf(p))
                E == EntryIdx(p)
                line == Lines[CHOOSE n \in E : TRUE]
            IN  Cardinality(times) >= 2 =>
                    /\ Cardinality(E) = 1
                    /\ IsAvailableLine(line)
                    /\ Range(line[3]) = times
                    /\ Len(line[3]) = Cardinality(times)
                    /\ Ascending(line[3])

\* C3 witness: A1 -> [07:00 PM], A2 -> [09:00 PM] has been reported as 7 PM, 9 PM
C3_Witness ==
    /\ pc = "done"
    /\ ReportDone
    /\ \E p \in Pairs :
        /\ CourtsDataOf(p) = << <<"A1", <<T(7,0,"PM")>> >>, <<"A2", <<T(9,0,"PM")>> >> >>
        /\ LineOf(p) = << "available", FormattedDate(p.date), << T(7,0,"PM"), T(9,0,"PM") >> >>

\* C4: a date for which the fetch stage handed over no slot gets the
\* "no timeslots" line of its date and no availability line.
C4_NoTimeslotsLine ==
    ReportDone =>
        \A p \in Pairs :
            LET E == EntryIdx(p)
                line == Lines[CHOOSE n \in E : TRUE]
            IN  DistinctTimes(CourtsDataOf(p)) = {} =>
                    /\ Cardinality(E) = 1
                    /\ IsNoTimeslots(line)

\* what a successful fetch of the pair hands over
Fetched(p) ==
    ParseAndFilter(site[p.location], p.location,
                   IF p.day_type = "weekday" THEN WEEKDAY_TIMES ELSE WEEKEND_TIMES)

\* C4 witness: the report shows "no timeslots" for a date whose fetch failed
\* (the page held slots to return) and for a date whose page was filtered out whole
C4_Witness ==
    /\ pc = "done"
    /\ ReportDone
    /\ fault = "request_exception"
    /\ \E p, q \in Pairs :
        /\ Fetched(p) # EmptyDict /\ CourtsDataOf(p) = EmptyDict /\ IsNoTimeslots(LineOf(p))
        /\ site[q.location] # << >> /\ Fetched(q) = EmptyDict /\ IsNoTimeslots(LineOf(q))

\* the pairs whose line is not the line of a successful fetch
Degraded ==
    { p \in Pairs :
        LET E == EntryIdx(p)
        IN  ~(Cardinality(E) = 1 /\ Lines[CHOOSE n \in E : TRUE] = EntryLine(p.date, Fetched(p))) }

\* C6: when a fetch has failed by a request exception the handler never takes
\* the error branch; the report is the normal one, the failed pair shows
\* "no timeslots", and every other pair shows the line of its own fetch.
C6_FailureIsLocal ==
    fault = "request_exception" =>
        /\ pc # "except"
        /\ pc \in {"respond", "done"} =>
            /\ result.message[1] = "report"
            /\ LET failed == Degraded
               IN  /\ Cardinality(failed) <= 1
                   /\ \A p \in failed : HasOneLine(p) /\ IsNoTimeslots(LineOf(p))

\* C6 witness: one pair is degraded to "no timeslots", another shows its times
C6_Witness ==
    /\ pc = "done"
    /\ fault = "request_exception"
    /\ ReportDone
    /\ Cardinality(Degraded) = 1
    /\ \E p \in Pairs \ Degraded : IsAvailableLine(LineOf(p))

\* C7: the labels of every availability line are in ascending time-of-day order.
C7_ChronologicalOrder ==
    ReportDone =>
        \A n \in 1..Len(Lines) :
            Lines[n][1] = "available" => Ascending(Lines[n][3])

\* C7 witness: labels emitted as 01:00 PM, 12:00 PM, 11:00 AM are listed
\* 11:00 AM, 12:00 PM, 01:00 PM
C7_Witness ==
    /\ ReportDone
    /\ \E p \in Pairs :
        /\ CourtsDataOf(p) = << <<"P1", << T(1,0,"PM"), T(12,0,"PM"), T(11,0,"AM") >> >> >>
        /\ LineOf(p)[3] = << T(11,0,"AM"), T(12,0,"PM"), T(1,0,"PM") >>

\* C9: the handler always ends in a 200 response whose body is the dict with
\* the fields message and image (null); an exception that reaches
\* generate_report ends in the error message, not in a crash.
C9_ExceptionBecomesErrorMessage ==
    /\ pc \in {"dates", "fetch", "submit1", "collect1", "submit2", "collect2",
               "format", "except", "respond", "done"}
    /\ pc = "done" =>
        /\ http.status = 200
        /\ DOMAIN http.body = {"message", "image"}
        /\ http.body.image = None
        /\ http.body.message[1] \in {"report", "unexpected_error"}
        /\ (variant = "app" /\ fault = "error") => http.body.message[1] = "unexpected_error"

\* C9 witness: an exception was caught at the top level and answered with 200
C9_Witness ==
    /\ pc = "done"
    /\ "traceback" \in printed
    /\ http = [status |-> 200, body |-> [message |-> <<"unexpected_error">>, image |-> None]]

TotalStored ==
    Len(data.expo_weekday_data) + Len(data.sims_weekday_data)
      + Len(data.expo_weekend_data) + Len(data.sims_weekend_data)

\* C10 (as claimed): at most one outbound fetch is in flight at any moment.
C10_AtMostOneInFlight == Cardinality(InFlight) <= 1

\* C10 (amended): in app.py at most one fetch is in flight and it is the
\* fetch of pair k, sent after the k-1 fetches before it have returned and been
\* stored; in main.py the fetches in flight are bounded by the pool's workers.
C10_SequentialInApp ==
    /\ Cardinality(InFlight) <= max_workers
    /\ variant = "app" =>
        /\ Cardinality(InFlight) <= 1
        /\ DOMAIN calls \subseteq {0}
        /\ DOMAIN calls # {} => (TotalStored = k - 1 /\ nrequests = k)

\* C10 witness: app.py has the last of its 14 fetches in flight
C10_Witness ==
    /\ variant = "app"
    /\ InFlight = {0}
    /\ k = 14
    /\ nrequests = 14

\* C11 (as claimed): one report request issues at most 14 outbound requests,
\* one per (date, facility) pair.
C11_AtMostFourteenRequests == nrequests <= 14

IsHeader(line) == line[1] \in {"heading", "courts"}
IsEntry(line) == line[1] \in {"available", "no_timeslots"}

\* calendar order of two dates as printed: <<day, month, year, day of week>>
DateBefore(a, b) ==
    \/ a[3] < b[3]
    \/ a[3] = b[3] /\ a[2] < b[2]
    \/ a[3] = b[3] /\ a[2] = b[2] /\ a[1] < b[1]

\* C12: the sections stand in the order weekday-Expo, weekday-Sims,
\* weekend-Expo, weekend-Sims, and within a section each entry's date is later
\* than the date of the entry above it, whatever the order of completion.
C12_SectionsAndDatesInOrder ==
    ReportDone =>
        /\ SelectSeq(Lines, IsHeader) =
              << <<"heading", "weekday">>, <<"courts", "expo">>, <<"courts", "sims">>,
                 <<"heading", "weekend">>, <<"courts", "expo">>, <<"courts", "sims">> >>
        /\ \A n \in 1..(Len(Lines) - 1) :
              (IsEntry(Lines[n]) /\ IsEntry(Lines[n + 1]))
                  => DateBefore(Lines[n][2], Lines[n + 1][2])

\* C12 witness: a report was built from a map filled out of date order
C12_Witness ==
    /\ ReportDone
    /\ variant = "main"
    /\ \E a, b \in 1..Len(data.expo_weekday_data) :
          a < b /\ StrLess(data.expo_weekday_data[b][1], data.expo_weekday_data[a][1])

\* C13: a result map changes only in a step of the handler's own thread that
\* takes one completed, not yet collected fetch (main.py) or that follows the
\* return of the one call (app.py), adding one entry and leaving every fetch in
\* flight as it is; a fetch that returns changes its own activation only,
\* neither a map nor another fetch.
C13_NoSharedWrites ==
    [][ /\ (data' # data) =>
            /\ TotalStored' = TotalStored + 1
            /\ InFlight' = InFlight
            /\ IF variant = "main"
               THEN /\ pc = "collect2"
                    /\ \E id \in Done \ collected : collected' = collected \cup {id}
               ELSE /\ pc = "fetch"
                    /\ InFlight = {}
                    /\ Done = {0}
        /\ \A id \in InFlight :
            (id \in DOMAIN calls' /\ calls'[id].stage = "returned") =>
                /\ data' = data
                /\ collected' = collected
                /\ \A other \in DOMAIN calls \ {id} : calls'[other] = calls[other]
      ]_vars

\* C13 witness: the collecting thread has written a map while two fetches run
C13_Witness ==
    /\ variant = "main"
    /\ pc = "collect2"
    /\ TotalStored >= 1
    /\ Cardinality(InFlight) >= 2

\* C14: when every fetch in flight eventually returns or times out, the pool's
\* workers are scheduled and the handler's thread runs, every request ends
\* with the {message, image} response.
C14_RunsToCompletion ==
    <>(pc = "done" /\ http.status = 200 /\ DOMAIN http.body = {"message", "image"})

\* C14 witness: main.py has answered after 28 fetches, one of which failed
C14_Witness ==
    /\ pc = "done"
    /\ variant = "main"
    /\ nrequests = 28
    /\ fault = "request_exception"
    /\ http.status = 200

\* the allowed set of a day type, and the day type of a date by its day of
\* the week (Zeller: 0 = Saturday, 1 = Sunday)
AllowedOf(day_type) == IF day_type = "weekday" THEN WEEKDAY_TIMES ELSE WEEKEND_TIMES
DayTypeOf(date_str) == IF Zeller(date_str) \in {0, 1} THEN "weekend" ELSE "weekday"

\* C15: every fetch is issued with the allowed set of its date's own day type,
\* and every label on a line below the weekday heading is a weekday label, every
\* label on a line below the weekend heading a weekend label.
C15_LabelsOfOwnDayType ==
    /\ \A id \in DOMAIN calls : calls[id].allowed = AllowedOf(DayTypeOf(calls[id].date))
    /\ ReportDone =>
        \A n \in 1..Len(Lines) :
            Lines[n][1] = "available" =>
                \A h \in 1..(n - 1) :
                    ( /\ Lines[h][1] = "heading"
                      /\ \A m \in (h + 1)..(n - 1) : Lines[m][1] # "heading" )
                    => Range(Lines[n][3]) \subseteq Range(AllowedOf(Lines[h][2]))

\* C15 witness: one page, holding 11:00 AM, 12:00 PM, 01:00 PM and 10:00 PM, is
\* reported with 10:00 PM alone on a weekday and with all four on a weekend day
C15_Witness ==
    /\ pc = "done"
    /\ ReportDone
    /\ \E p, q \in Pairs :
        /\ p.day_type = "weekday" /\ q.day_type = "weekend"
        /\ p.location = "expo" /\ q.location = "expo"
        /\ LineOf(p) = << "available", FormattedDate(p.date), << T(10,0,"PM") >> >>
        /\ LineOf(q) = << "available", FormattedDate(q.date),
                          << T(11,0,"AM"), T(12,0,"PM"), T(1,0,"PM"), T(10,0,"PM") >> >>

\* the seven dates of the request
NextSevenDays == { StrftimeISO(today + n) : n \in 1..7 }

OtherDayType(day_type) == IF day_type = "weekday" THEN "weekend" ELSE "weekday"

\* C16: a normal report holds 14 entry lines: for each of the seven dates and
\* each facility exactly one, in the section of the date's own day type, and
\* none in the section of the other day type.
C16_OneEntryPerPair ==
    ReportDone =>
        /\ Cardinality({ n \in 1..Len(Lines) : IsEntry(Lines[n]) }) = 14
        /\ \A d \in NextSevenDays, l \in {"expo", "sims"} :
            /\ Cardinality(EntryIdx([day_type |-> DayTypeOf(d), location |-> l, date |-> d])) = 1
            /\ EntryIdx([day_type |-> OtherDayType(DayTypeOf(d)), location |-> l, date |-> d]) = {}

\* C16 witness: main.py has reported although a fetch of the second pool raised
C16_Witness ==
    /\ pc = "done"
    /\ ReportDone
    /\ variant = "main"
    /\ fault = "error"
    /\ \E p \in Pairs : Fetched(p) # EmptyDict /\ CourtsDataOf(p) = EmptyDict

\* the line a date gets from what was recorded for it, whatever the order of
\* recording
LineFor(p) ==
    LET times == DistinctTimes(CourtsDataOf(p))
    IN  IF times = {}
        THEN << "no_timeslots", FormattedDate(p.date) >>
        ELSE << "available", FormattedDate(p.date),
                CHOOSE seq \in [1..Cardinality(times) -> times] :
                    Range(seq) = times /\ Ascending(seq) >>

SectionFor(day_type, location, days) ==
    [ n \in 1..Len(days) |-> LineFor([day_type |-> day_type, location |-> location, date |-> days[n]]) ]

\* the report of main.py as a function of the recorded outcomes alone
ReportFor ==
    << <<"title">>, <<"heading", "weekday">>, <<"courts", "expo">> >>
      \o SectionFor("weekday", "expo", weekdays_dates)
      \o << <<"courts", "sims">> >> \o SectionFor("weekday", "sims", weekdays_dates)
      \o << <<"heading", "weekend">>, <<"courts", "expo">> >>
      \o SectionFor("weekend", "expo", weekends_dates)
      \o << <<"courts", "sims">> >> \o SectionFor("weekend", "sims", weekends_dates)

\* C17: in main.py formatting begins only when every one of the 14 fetches has
\* completed and been recorded, what is recorded for a pair is the outcome of
\* its own fetch, and the message is a function of the recorded outcomes alone:
\* it does not depend on the order in which the fetches started and completed.
C17_DeterministicReport ==
    variant = "main" =>
        /\ pc \in {"format", "respond", "done"} =>
            /\ collected = 1..14
            /\ InFlight = {} /\ QueuedIds = {}
            /\ TotalStored = 14
            /\ \A p \in Pairs : CourtsDataOf(p) \in {Fetched(p), EmptyDict}
            /\ fault = None => \A p \in Pairs : CourtsDataOf(p) = Fetched(p)
        /\ pc \in {"respond", "done"} =>
            /\ result.message[1] = "report"
            /\ Lines = ReportFor

\* C17 witness: a report built after the Sims weekday fetches were recorded out
\* of date order, every fetch having answered
C17_Witness ==
    /\ pc = "done"
    /\ variant = "main"
    /\ fault = None
    /\ Lines = ReportFor
    /\ \E a, b \in 1..Len(data.sims_weekday_data) :
          a < b /\ StrLess(data.sims_weekday_data[b][1], data.sims_weekday_data[a][1])

====
